---- MODULE Spec2Model ----
(***************************************************************************)
(* rs-bookmark-tool: Link::new (date defaulting), prompt (tag resolution), *)
(* output (title sanitisation, TOML text, store write), output_from_json   *)
(* and validate_entry / validate_entries.                                  *)
(*                                                                         *)
(* A Rust String is a sequence of characters; a character is a one-letter  *)
(* TLA+ string.  The non-ASCII letter e-acute is the token EAcute.         *)
(***************************************************************************)
EXTENDS Integers, Sequences, FiniteSets, TLC

VARIABLES clock, cur, stderr, call, store, log, vres

vars == <<clock, cur, stderr, call, store, log, vres>>

(***************************************************************************)
(* Bounds of the model.                                                    *)
(***************************************************************************)
MaxTicks == 2
MaxWrites == 3
MaxImport == 2
MaxDirFiles == 3

(***************************************************************************)
(* Characters and strings.                                                 *)
(***************************************************************************)
EAcute == "U+00E9"

UpperLetters ==
  <<"A","B","C","D","E","F","G","H","I","J","K","L","M",
    "N","O","P","Q","R","S","T","U","V","W","X","Y","Z">>

LowerLetters ==
  <<"a","b","c","d","e","f","g","h","i","j","k","l","m",
    "n","o","p","q","r","s","t","u","v","w","x","y","z">>

Digits == <<"0","1","2","3","4","5","6","7","8","9">>

Range(s) == {s[i] : i \in DOMAIN s}

IsDigit(c) == c \in Range(Digits)

DigitVal(c) == (CHOOSE i \in 1..10 : Digits[i] = c) - 1

RECURSIVE Num(_)
Num(s) == IF s = <<>> THEN 0
          ELSE 10 * Num(SubSeq(s, 1, Len(s) - 1)) + DigitVal(s[Len(s)])

\* char::to_lowercase on the characters of the model
LowerChar(c) ==
  IF c \in Range(UpperLetters)
    THEN LowerLetters[CHOOSE i \in 1..26 : UpperLetters[i] = c]
    ELSE c

\* str::to_lowercase
to_lowercase(s) == [i \in 1..Len(s) |-> LowerChar(s[i])]

IsWhite(c) == c \in {" ", "\t"}

\* str::trim
RECURSIVE trim_start(_)
trim_start(s) == IF s # <<>> /\ IsWhite(s[1]) THEN trim_start(Tail(s)) ELSE s

RECURSIVE trim_end(_)
trim_end(s) == IF s # <<>> /\ IsWhite(s[Len(s)])
                 THEN trim_end(SubSeq(s, 1, Len(s) - 1)) ELSE s

trim(s) == trim_end(trim_start(s))

\* str::split(sep): the pieces between the separators, empty pieces kept
RECURSIVE split(_, _)
split(s, sep) ==
  IF \A i \in 1..Len(s) : s[i] # sep THEN <<s>>
  ELSE LET i == CHOOSE k \in 1..Len(s) :
                  s[k] = sep /\ \A j \in 1..(k - 1) : s[j] # sep
       IN <<SubSeq(s, 1, i - 1)>> \o split(SubSeq(s, i + 1, Len(s)), sep)

(***************************************************************************)
(* Calendar dates (chrono::NaiveDate) and the clock.                       *)
(***************************************************************************)
IsLeap(y) == (y % 4 = 0 /\ y % 100 # 0) \/ y % 400 = 0

DaysInMonth(y, m) ==
  IF m = 2 THEN (IF IsLeap(y) THEN 29 ELSE 28)
  ELSE IF m \in {4, 6, 9, 11} THEN 30 ELSE 31

Date(y, m, d) == [y |-> y, m |-> m, d |-> d]

NextDay(dt) ==
  IF dt.d < DaysInMonth(dt.y, dt.m) THEN Date(dt.y, dt.m, dt.d + 1)
  ELSE IF dt.m < 12 THEN Date(dt.y, dt.m + 1, 1)
  ELSE Date(dt.y + 1, 1, 1)

RECURSIVE AddDays(_, _)
AddDays(dt, n) == IF n = 0 THEN dt ELSE AddDays(NextDay(dt), n - 1)

\* the date of the first clock reading of a run
StartDate == Date(2024, 2, 28)

\* chrono::Local::now().date_naive()
Today == AddDays(StartDate, clock)

\* NaiveDate::parse_from_str(s, "%Y-%m-%d"): a year of 1 to 4 digits, a month
\* and a day of 1 or 2 digits, a day of the calendar.  The inputs of the
\* model hold no signed year and no date with blanks around its numbers.
ParseDate(s) ==
  LET p == split(s, "-")
      shaped == /\ Len(p) = 3
                /\ \A i \in 1..3 : p[i] # <<>> /\ \A c \in Range(p[i]) : IsDigit(c)
                /\ Len(p[1]) <= 4 /\ Len(p[2]) <= 2 /\ Len(p[3]) <= 2
  IN IF ~shaped THEN [ok |-> FALSE, date |-> Date(0, 0, 0)]
     ELSE LET y == Num(p[1])
              m == Num(p[2])
              d == Num(p[3])
          IN IF m \in 1..12 /\ d \in 1..DaysInMonth(y, m)
               THEN [ok |-> TRUE, date |-> Date(y, m, d)]
               ELSE [ok |-> FALSE, date |-> Date(0, 0, 0)]

Pad(n, w) ==
  [i \in 1..w |-> Digits[((n \div (10 ^ (w - i))) % 10) + 1]]

\* Display of NaiveDate: YYYY-MM-DD
FormatDate(dt) == Pad(dt.y, 4) \o <<"-">> \o Pad(dt.m, 2) \o <<"-">> \o Pad(dt.d, 2)

(***************************************************************************)
(* Link::new                                                               *)
(***************************************************************************)
None == [some |-> FALSE, set |-> {}]
Some(S) == [some |-> TRUE, set |-> S]

WarnAdded == "Invalid date format for 'added' field. Using current date instead."
WarnAccessed == "Invalid date format for 'accessed' field. Using current date instead."

\* a plausible slip: the empty input is not defaulted before parsing
ResolveAdded_NoEmptyCheck(added_str, now) ==
  IF to_lowercase(trim(added_str)) = <<"x">>
    THEN [date |-> now, warn |-> <<>>]
    ELSE LET r == ParseDate(added_str)
         IN IF r.ok THEN [date |-> r.date, warn |-> <<>>]
            ELSE [date |-> now, warn |-> <<WarnAdded>>]

ResolveAdded(added_str, now) ==
  IF added_str = <<>> \/ to_lowercase(trim(added_str)) = <<"x">>
    THEN [date |-> now, warn |-> <<>>]
    ELSE LET r == ParseDate(added_str)
         IN IF r.ok THEN [date |-> r.date, warn |-> <<>>]
            ELSE [date |-> now, warn |-> <<WarnAdded>>]

\* the sentinel test reads added_str, as the source does
ResolveAccessed(added_str, accessed_str, now) ==
  IF accessed_str = <<>> \/ to_lowercase(trim(added_str)) = <<"x">>
    THEN [date |-> now, warn |-> <<>>]
    ELSE LET r == ParseDate(accessed_str)
         IN IF r.ok THEN [date |-> r.date, warn |-> <<>>]
            ELSE [date |-> now, warn |-> <<WarnAccessed>>]

Link_new(title, link, desc, added, accessed, tags, now) ==
  LET a == ResolveAdded(added, now)
      b == ResolveAccessed(added, accessed, now)
  IN [lnk |-> [title |-> title, link |-> link, desc |-> desc,
               added |-> a.date, accessed |-> b.date, tags |-> tags],
      warn |-> a.warn \o b.warn]

(***************************************************************************)
(* prompt                                                                  *)
(***************************************************************************)
PromptTags(tags_str) ==
  IF tags_str = <<>> THEN None
  ELSE LET p == split(tags_str, ",")
       IN Some({trim(p[i]) : i \in 1..Len(p)})

\* the arguments and the clock reading of the latest Link::new call
Frame(op, added, accessed, tags_str, now) ==
  [op |-> op, added |-> added, accessed |-> accessed,
   tags_str |-> tags_str, now |-> now]

NoFrame == Frame("none", <<>>, <<>>, <<>>, StartDate)

prompt(title, link, desc, added, accessed, tags_str) ==
  LET r == Link_new(title, link, desc, added, accessed, PromptTags(tags_str), Today)
  IN /\ cur' = <<r.lnk>>
     /\ stderr' = r.warn
     /\ call' = Frame("prompt", added, accessed, tags_str, Today)
     /\ UNCHANGED <<clock, store, log, vres>>

Tick ==
  /\ clock < MaxTicks
  /\ clock' = clock + 1
  /\ UNCHANGED <<cur, stderr, call, store, log, vres>>

(***************************************************************************)
(* output: the identifier, the TOML text, the write                        *)
(***************************************************************************)
\* unidecode::unidecode: ASCII is kept, e-acute becomes e
UnidecodeChar(c) == IF c = EAcute THEN <<"e">> ELSE <<c>>

RECURSIVE unidecode(_)
unidecode(s) == IF s = <<>> THEN <<>> ELSE UnidecodeChar(s[1]) \o unidecode(Tail(s))

\* the characters output replaces, one replace call each
Replaced ==
  {"/", "\\", ":", "*", "?", "\"", "<", ">", "|", " ",
   "(", ")", "+", "&", "^", "#", "@", "$", "%", "="}

ReplaceChars(s) == [i \in 1..Len(s) |-> IF s[i] \in Replaced THEN "_" ELSE s[i]]

\* str::replace("__", "_"): one pass over the non-overlapping matches
RECURSIVE ReplaceDouble(_)
ReplaceDouble(s) ==
  IF Len(s) >= 2 /\ s[1] = "_" /\ s[2] = "_"
    THEN <<"_">> \o ReplaceDouble(SubSeq(s, 3, Len(s)))
  ELSE IF s = <<>> THEN <<>>
  ELSE <<s[1]>> \o ReplaceDouble(Tail(s))

SafeTitle(title) == to_lowercase(ReplaceDouble(ReplaceChars(unidecode(title))))

Quote == "\""

Quoted(s) == <<Quote>> \o s \o <<Quote>>

\* the lines of a TOML text: a [table] header, key = "string", key = [array]
TableLine(name) == [kind |-> "table", key |-> name, val |-> <<>>, items |-> {}]
StringLine(key, val) == [kind |-> "string", key |-> key, val |-> val, items |-> {}]
ArrayLine(key, items) == [kind |-> "array", key |-> key, val |-> <<>>, items |-> items]

K_title == <<"t","i","t","l","e">>
K_link == <<"l","i","n","k">>
K_desc == <<"d","e","s","c">>
K_added == <<"a","d","d","e","d">>
K_accessed == <<"a","c","c","e","s","s","e","d">>
K_tags == <<"t","a","g","s">>

\* the quoted tags of the array; a HashSet is written in no fixed order
format_tags(tags) == {Quoted(t) : t \in tags}

Text(lnk) ==
  <<TableLine(SafeTitle(lnk.title)),
    StringLine(K_title, Quoted(lnk.title)),
    StringLine(K_link, Quoted(lnk.link)),
    StringLine(K_desc, Quoted(lnk.desc)),
    StringLine(K_added, Quoted(FormatDate(lnk.added))),
    StringLine(K_accessed, Quoted(FormatDate(lnk.accessed)))>>
  \o (IF lnk.tags.some THEN <<ArrayLine(K_tags, format_tags(lnk.tags.set))>> ELSE <<>>)

Ext_toml == <<".","t","o","m","l">>

FileName(safe_title) == safe_title \o Ext_toml

\* a plausible slip: create-new semantics, an existing file is kept
WriteFile_KeepExisting(files, path, text) ==
  [f \in DOMAIN files \cup {path} |-> IF f \in DOMAIN files THEN files[f] ELSE text]

\* fs::write: creates the file or replaces its content
WriteFile(files, path, text) ==
  [f \in DOMAIN files \cup {path} |-> IF f = path THEN text ELSE files[f]]

OutputTo(files, lnk) == WriteFile(files, FileName(SafeTitle(lnk.title)), Text(lnk))

\* output(lnk, dir): the Link is moved into the call
output ==
  /\ cur # <<>>
  /\ Len(log) < MaxWrites
  /\ store' = OutputTo(store, cur[1])
  /\ log' = Append(log, cur[1])
  /\ cur' = <<>>
  /\ UNCHANGED <<clock, stderr, call, vres>>

JsonLink(name, url, description, time_added, time_last_used, tags) ==
  [name |-> name, url |-> url, description |-> description,
   time_added |-> time_added, time_last_used |-> time_last_used, tags |-> tags]

\* the loop of output_from_json: Link::new, then output, for each link in order
RECURSIVE ImportAll(_, _, _)
ImportAll(links, now, acc) ==
  IF links = <<>> THEN acc
  ELSE LET j == links[1]
           r == Link_new(j.name, j.url, j.description, j.time_added,
                         j.time_last_used, j.tags, now)
       IN ImportAll(Tail(links), now,
                    [files |-> OutputTo(acc.files, r.lnk),
                     written |-> Append(acc.written, r.lnk),
                     warn |-> acc.warn \o r.warn])

output_from_json(links) ==
  LET r == ImportAll(links, Today, [files |-> store, written |-> log, warn |-> <<>>])
      last == links[Len(links)]
  IN /\ Len(log) + Len(links) <= MaxWrites
     /\ store' = r.files
     /\ log' = r.written
     /\ stderr' = r.warn
     /\ call' = Frame("import", last.time_added, last.time_last_used, <<>>, Today)
     /\ UNCHANGED <<clock, cur, vres>>

(***************************************************************************)
(* toml::from_str::<Link>                                                  *)
(***************************************************************************)
IsBareKeyChar(c) ==
  c \in Range(UpperLetters) \cup Range(LowerLetters) \cup Range(Digits) \cup {"_", "-"}

\* a table header names a dotted key of non-empty bare keys
IsKey(name) ==
  LET p == split(name, ".")
  IN \A i \in 1..Len(p) : p[i] # <<>> /\ \A c \in Range(p[i]) : IsBareKeyChar(c)

\* a basic string: the text between the two quotes, which holds no quote
IsBasicString(v) ==
  /\ Len(v) >= 2
  /\ v[1] = Quote /\ v[Len(v)] = Quote
  /\ \A i \in 2..(Len(v) - 1) : v[i] \notin {Quote, "\\"}

Unquote(v) == SubSeq(v, 2, Len(v) - 1)

LineOK(l) ==
  CASE l.kind = "table" -> IsKey(l.key)
    [] l.kind = "string" -> IsBasicString(l.val)
    [] l.kind = "array" -> \A it \in l.items : IsBasicString(it)

\* the keys written before the first [table] header belong to the root table
RootLen(text) ==
  IF \A i \in 1..Len(text) : text[i].kind # "table" THEN Len(text)
  ELSE (CHOOSE k \in 1..Len(text) :
          text[k].kind = "table" /\ \A j \in 1..(k - 1) : text[j].kind # "table") - 1

DecodeFailed ==
  [ok |-> FALSE,
   rec |-> [title |-> <<>>, link |-> <<>>, desc |-> <<>>, added |-> Date(0, 0, 0),
            accessed |-> Date(0, 0, 0), tags |-> None]]

Decode(text) ==
  LET n == RootLen(text)
      root(k) == {i \in 1..n : text[i].key = k}
      \* a header [k] or [k.x] makes the root key k a table
      tabled(k) == \E i \in 1..Len(text) :
                     text[i].kind = "table" /\ split(text[i].key, ".")[1] = k
      one(k, kind) == /\ Cardinality(root(k)) = 1
                      /\ \A i \in root(k) : text[i].kind = kind
                      /\ ~tabled(k)
      str(k) == Unquote(text[CHOOSE i \in root(k) : TRUE].val)
      syntax == /\ \A i \in 1..Len(text) : LineOK(text[i])
                /\ \A i, j \in 1..n : text[i].key = text[j].key => i = j
      scalars == \A k \in {K_title, K_link, K_desc, K_added, K_accessed} : one(k, "string")
      tagsOK == (root(K_tags) = {} /\ ~tabled(K_tags)) \/ one(K_tags, "array")
  IN IF ~(syntax /\ scalars /\ tagsOK) THEN DecodeFailed
     ELSE LET a == ParseDate(str(K_added))
              b == ParseDate(str(K_accessed))
          IN IF ~(a.ok /\ b.ok) THEN DecodeFailed
             ELSE [ok |-> TRUE,
                   rec |-> [title |-> str(K_title), link |-> str(K_link),
                            desc |-> str(K_desc), added |-> a.date,
                            accessed |-> b.date,
                            tags |-> IF root(K_tags) = {} THEN None
                                     ELSE Some({Unquote(it) :
                                       it \in text[CHOOSE i \in root(K_tags) : TRUE].items})]]

(***************************************************************************)
(* validate_entry, validate_entries                                        *)
(***************************************************************************)
Result(kind, err, out) == [kind |-> kind, err |-> err, out |-> out]

\* a plausible slip: the stricter policy, an empty description is an error
validate_entry_StrictDesc(content) ==
  LET d == Decode(content)
  IN IF ~d.ok THEN Result("panic", <<"Unable to parse toml">>, <<>>)
     ELSE IF d.rec.title = <<>> THEN Result("Err", <<"Title is empty">>, <<>>)
     ELSE IF d.rec.link = <<>> THEN Result("Err", <<"URL is empty">>, <<>>)
     ELSE IF d.rec.desc = <<>> THEN Result("Err", <<"Description is empty">>, <<>>)
     ELSE Result("Ok", <<>>, <<>>)

\* kind: Ok, Err (err holds the message) or panic (the expect on the parse)
validate_entry(content) ==
  LET d == Decode(content)
  IN IF ~d.ok THEN Result("panic", <<"Unable to parse toml">>, <<>>)
     ELSE IF d.rec.title = <<>> THEN Result("Err", <<"Title is empty">>, <<>>)
     ELSE IF d.rec.link = <<>> THEN Result("Err", <<"URL is empty">>, <<>>)
     ELSE IF d.rec.desc = <<>> THEN Result("Ok", <<>>, <<"Contains no description.">>)
     ELSE Result("Ok", <<>>, <<>>)

File(name, is_file, ext, content) ==
  [name |-> name, is_file |-> is_file, ext |-> ext, content |-> content]

IsToml(f) == f.is_file /\ f.ext = "toml"

\* the for loop over read_dir: an Err result, or a failed parse, panics and
\* ends the pass; outcomes holds what was printed for each file reached
RECURSIVE Walk(_, _)
Walk(entries, outcomes) ==
  IF entries = <<>> THEN [status |-> "ok", outcomes |-> outcomes]
  ELSE LET f == entries[1]
       IN IF ~IsToml(f) THEN Walk(Tail(entries), outcomes)
          ELSE LET r == validate_entry(f.content)
                   o == Append(outcomes, [name |-> f.name, result |-> r])
               IN IF r.kind = "Ok" THEN Walk(Tail(entries), o)
                  ELSE [status |-> "panic", outcomes |-> o]

validate_entries(dir) ==
  LET w == Walk(dir, <<>>)
  IN /\ vres' = [dir |-> dir, status |-> w.status, outcomes |-> w.outcomes]
     /\ UNCHANGED <<clock, cur, stderr, call, store, log>>

(***************************************************************************)
(* Inputs, initial state, specifications.                                  *)
(***************************************************************************)
Init ==
  /\ clock = 0
  /\ cur = <<>>
  /\ stderr = <<>>
  /\ call = NoFrame
  /\ store = <<>>
  /\ log = <<>>
  /\ vres = [dir |-> <<>>, status |-> "none", outcomes |-> <<>>]

\* sequences without repetition, of length at most n, over S
RECURSIVE Inj(_, _)
Inj(S, n) ==
  IF n = 0 THEN {<<>>}
  ELSE LET P == Inj(S, n - 1)
       IN P \cup UNION {{Append(q, x) : x \in S \ Range(q)} : q \in P}

D_2023_05_17 == <<"2","0","2","3","-","0","5","-","1","7">>

\* titles given to prompt: plain, colliding, with replaced and unreplaced
\* punctuation, a run of replaced characters, non-ASCII, empty
StoreTitles ==
  {<<>>,
   <<"R","s">>,
   <<"R"," ","s">>,
   <<"R","/","s">>,
   <<"R"," "," "," ","s">>,
   <<"R",".","s">>,
   <<"/","?">>,
   <<EAcute>>}

JsonSamples ==
  {JsonLink(<<"R","s">>, <<"u">>, <<"d">>, <<"x">>, D_2023_05_17, Some({<<"t">>, <<"g","o">>})),
   JsonLink(<<"r","s","!">>, <<"v">>, <<>>, D_2023_05_17, <<"x">>, None)}

JsonBatches == Inj(JsonSamples, MaxImport) \ {<<>>}

\* let lnk = prompt(); output(lnk, ..): the add loop holds no Link when it prompts
AtPrompt == cur = <<>> /\ Len(log) < MaxWrites

\* the add loop (prompt, then output) and the JSON import, on one store
Next ==
  \/ AtPrompt /\ \E t \in StoreTitles :
       prompt(t, <<"u">>, <<"d">>, D_2023_05_17, <<>>, <<>>)
  \/ output
  \/ \E links \in JsonBatches : output_from_json(links)

Spec == Init /\ [][Next]_vars

\* raw date input: well-formed and ill-formed dates, the sentinel, blanks
DateInputs ==
  {y \o <<"-">> \o m \o <<"-">> \o d :
     y \in {<<"2","0","2","3">>, <<"2","0","2","4">>},
     m \in {<<"0","2">>, <<"1","2">>, <<"1","3">>},
     d \in {<<"0","0">>, <<"2","9">>, <<"3","1">>, <<"4","0">>}}
  \cup {<<>>, <<"x">>, <<"X">>, <<" ","x"," ">>, <<" ","X">>, <<" "," ">>,
        <<"a","b","c">>, <<"2","0","2","3","-","5","-","7">>,
        <<"2","0","2","3","-","0","5">>, <<"x","x">>}

TagInputs ==
  {<<>>,
   <<"r","u","s","t",","," ",","," ","g","o",",","g","o">>,
   <<"a">>,
   <<"a",",">>,
   <<" ">>,
   <<" ","a"," ",",","b">>}

\* Link::new under every pair of raw dates, the clock running
NextNew ==
  \/ Tick
  \/ AtPrompt /\ \E a \in DateInputs, b \in DateInputs, t \in TagInputs :
       prompt(<<"X">>, <<"Y">>, <<>>, a, b, t)

SpecNew == Init /\ [][NextNew]_vars

D_2024_01_15 == <<"2","0","2","4","-","0","1","-","1","5">>

\* a record file written by hand: the keys at the top level, no header
FlatText(title, link, desc) ==
  <<StringLine(K_title, Quoted(title)),
    StringLine(K_link, Quoted(link)),
    StringLine(K_desc, Quoted(desc)),
    StringLine(K_added, Quoted(D_2024_01_15)),
    StringLine(K_accessed, Quoted(D_2024_01_15))>>

SampleLink ==
  Link_new(<<"R","s">>, <<"u">>, <<"d">>, D_2023_05_17, D_2024_01_15, None, StartDate).lnk

\* the entries a validated directory may hold
DirFiles ==
  {File(<<"a">>, TRUE, "toml", FlatText(<<"T">>, <<"u">>, <<"d">>)),
   File(<<"b">>, TRUE, "toml", FlatText(<<"T">>, <<"u">>, <<>>)),
   File(<<"c">>, TRUE, "toml", FlatText(<<>>, <<"u">>, <<"d">>)),
   File(<<"d">>, TRUE, "toml", FlatText(<<"T">>, <<>>, <<"d">>)),
   File(<<"e">>, TRUE, "toml", FlatText(<<>>, <<>>, <<>>)),
   File(<<"r","s">>, TRUE, "toml", Text(SampleLink)),
   File(<<"n">>, TRUE, "txt", <<>>),
   File(<<"s">>, FALSE, "toml", <<>>)}

Dirs == Inj(DirFiles, MaxDirFiles)

\* one run of the validation pass over a directory
NotRun == vres.status = "none"

NextValidate == NotRun /\ \E dir \in Dirs : validate_entries(dir)

SpecValidate == Init /\ [][NextValidate]_vars

(***************************************************************************)
(* Properties.                                                             *)
(***************************************************************************)
IsLower(c) == c \in Range(LowerLetters)

IsApproved(c) == IsLower(c) \/ IsDigit(c) \/ c = "_"

NoDoubleSeparator(id) == \A i \in 1..(Len(id) - 1) : ~(id[i] = "_" /\ id[i + 1] = "_")

\* the identifier a store file is named by: the file name without .toml
IdOf(f) == SubSeq(f, 1, Len(f) - Len(Ext_toml))

\* C1: every identifier output computes holds only lowercase letters, digits
\* and the separator, and never two separators in a row.
C1_IdentifierAlphabet ==
  \A f \in DOMAIN store :
    /\ \A c \in Range(IdOf(f)) : IsApproved(c)
    /\ NoDoubleSeparator(IdOf(f))

\* a calendar date written strictly as YYYY-MM-DD
StrictYMD(a) ==
  /\ Len(a) = 10
  /\ a[5] = "-" /\ a[8] = "-"
  /\ \A i \in {1, 2, 3, 4, 6, 7, 9, 10} : IsDigit(a[i])
  /\ Num(SubSeq(a, 6, 7)) \in 1..12
  /\ Num(SubSeq(a, 9, 10)) \in 1..DaysInMonth(Num(SubSeq(a, 1, 4)), Num(SubSeq(a, 6, 7)))

YMDValue(a) == Date(Num(SubSeq(a, 1, 4)), Num(SubSeq(a, 6, 7)), Num(SubSeq(a, 9, 10)))

IsSentinel(a) == to_lowercase(trim(a)) = <<"x">>

IsCalendarDate(dt) == dt.m \in 1..12 /\ dt.d \in 1..DaysInMonth(dt.y, dt.m)

Prompted == call.op = "prompt" /\ cur # <<>>

\* C2: accessed is resolved from accessed_raw and the current date alone: a
\* valid YYYY-MM-DD accessed_raw is the record's accessed, and the sentinel
\* gives the current date without a warning, whatever added_raw is.
C2_AccessedIndependent ==
  Prompted =>
    /\ StrictYMD(call.accessed) => cur[1].accessed = YMDValue(call.accessed)
    /\ IsSentinel(call.accessed) =>
         cur[1].accessed = call.now /\ WarnAccessed \notin Range(stderr)

ParsedRecords(dir) == \A i \in 1..Len(dir) : IsToml(dir[i]) => Decode(dir[i].content).ok

ValidRecord(f) ==
  LET d == Decode(f.content)
  IN d.ok /\ d.rec.title # <<>> /\ d.rec.link # <<>>

\* C3: a validation pass over a directory of parseable records gives every
\* .toml record its own outcome, and reports every valid record Valid,
\* wherever the invalid records stand.
C3_BatchValidatesAll ==
  (vres.status # "none" /\ ParsedRecords(vres.dir)) =>
    \A i \in 1..Len(vres.dir) :
      IsToml(vres.dir[i]) =>
        \E k \in 1..Len(vres.outcomes) :
          /\ vres.outcomes[k].name = vres.dir[i].name
          /\ ValidRecord(vres.dir[i]) => vres.outcomes[k].result.kind = "Ok"

FileOf(name) == CHOOSE f \in Range(vres.dir) : f.name = name

\* C4: a record whose title and url are both empty is Invalid with both
\* reasons, the title's first.
C4_AllViolations ==
  \A k \in 1..Len(vres.outcomes) :
    LET d == Decode(FileOf(vres.outcomes[k].name).content)
    IN (d.ok /\ d.rec.title = <<>> /\ d.rec.link = <<>>) =>
         /\ vres.outcomes[k].result.kind = "Err"
         /\ vres.outcomes[k].result.err = <<"Title is empty", "URL is empty">>

\* the latest record written under the identifier of file f
LastWritten(f) ==
  log[CHOOSE i \in 1..Len(log) :
        /\ FileName(SafeTitle(log[i].title)) = f
        /\ \A j \in (i + 1)..Len(log) : FileName(SafeTitle(log[j].title)) # f]

QuoteFree(lnk) ==
  /\ \A c \in Range(lnk.title) \cup Range(lnk.link) \cup Range(lnk.desc) : c # Quote
  /\ \A t \in lnk.tags.set : \A c \in Range(t) : c # Quote

\* C5: the text output writes for a quote-free record decodes, and decodes
\* to that record.
C5_RoundTrip ==
  \A f \in DOMAIN store :
    QuoteFree(LastWritten(f)) =>
      /\ Decode(store[f]).ok
      /\ Decode(store[f]).rec = LastWritten(f)

\* C6: empty tag input gives no tags; any other input gives the set of the
\* trimmed pieces that are not empty.
C6_TagResolution ==
  Prompted =>
    LET p == split(call.tags_str, ",")
    IN IF call.tags_str = <<>> THEN ~cur[1].tags.some
       ELSE /\ cur[1].tags.some
            /\ cur[1].tags.set = {trim(p[i]) : i \in 1..Len(p)} \ {<<>>}

D_2023_13_40 == <<"2","0","2","3","-","1","3","-","4","0">>

C8_DescriptionIsWarning ==
  \A k \in 1..Len(vres.outcomes) :
    LET d == Decode(FileOf(vres.outcomes[k].name).content)
        r == vres.outcomes[k].result
    IN d.ok =>
         /\ (d.rec.title # <<>> /\ d.rec.link # <<>>) <=> r.kind = "Ok"
         /\ (d.rec.title = <<>> \/ d.rec.link = <<>>) <=> r.kind = "Err"

\* a record with an empty description was reported valid, with the note
C8_Witness ==
  \E k \in 1..Len(vres.outcomes) :
    LET d == Decode(FileOf(vres.outcomes[k].name).content)
    IN /\ d.ok /\ d.rec.desc = <<>>
       /\ vres.outcomes[k].result.kind = "Ok"
       /\ vres.outcomes[k].result.out # <<>>

\* C9: the store holds exactly one file per identifier written, named by the
\* identifier plus .toml, and each file holds the text of the latest record
\* written under its identifier.
C9_LastWriteWins ==
  /\ DOMAIN store = {FileName(SafeTitle(log[i].title)) : i \in 1..Len(log)}
  /\ \A f \in DOMAIN store : store[f] = Text(LastWritten(f))

\* two different titles collided on one file, a third record keeps its own
C9_Witness ==
  \E i, j, k \in 1..Len(log) :
    /\ i < j /\ k < j
    /\ log[i].title # log[j].title
    /\ SafeTitle(log[i].title) = SafeTitle(log[j].title)
    /\ SafeTitle(log[k].title) # SafeTitle(log[j].title)
    /\ store[FileName(SafeTitle(log[j].title))] = Text(log[j])
    /\ store[FileName(SafeTitle(log[k].title))] = Text(log[k])
    /\ Cardinality(DOMAIN store) = 2

Degenerate(id) == \A c \in Range(id) : c = "_"

\* C10: no record is written to a file named by an empty or all-separator
\* identifier.
C10_DegenerateHandled ==
  \A f \in DOMAIN store : ~Degenerate(IdOf(f))

====
